---- MODULE Spec2Model ----
(***************************************************************************)
(* The WhatsApp flight-booking webhook of src/main.py as a state machine.  *)
(*                                                                         *)
(* State: the two module-level dicts user_sessions and                     *)
(* user_last_interaction, the session dicts they refer to (Python objects, *)
(* kept by identity because a suspended handler keeps its reference), the  *)
(* coroutines suspended at an await, the razorpay client, the two database *)
(* tables the webhook writes, and the last reply sent.                     *)
(*                                                                         *)
(* Time: every timestamp is kept as its age, now - t, in seconds.  The     *)
(* code reads the clock when a request arrives and compares ages with 2 s  *)
(* and 1 h only, so an age is kept exactly below 2 s and at 3600 s, as 2   *)
(* between the two and as 3601 above (see Elapsed).                        *)
(***************************************************************************)
EXTENDS Integers, Sequences, FiniteSets, TLC

VARIABLES
    user_sessions,          \* main.py:29   user -> session object id, or NoSession
    objects,                \* the session dicts alive: object id -> dict
    user_last_interaction,  \* main.py:30   user -> age of the entry, or NoTime
    handlers,               \* webhook coroutines suspended at an await
    razorpay_client,        \* main.py:64-68  "client" or "none"
    flight_bookings,        \* rows of table flight_bookings (see Forget)
    passenger_rows,         \* rows of table passengers (see Forget)
    second_owner,           \* the booking reference of the current clock second, or 0
    audit,                  \* per session object: what was done for it (history)
    last                    \* the reply of the last finished request

vars == <<user_sessions, objects, user_last_interaction, handlers, razorpay_client,
          flight_bookings, passenger_rows, second_owner, audit, last>>

-----------------------------------------------------------------------------
(* Bounds of the model *)

\* coroutines suspended at the same time (SpecRace, SpecPay)
MaxInFlight == 2
\* booking rows of the sessions and handlers that are alive
MaxBookings == 2

(* Program constants *)

DebounceSeconds == 2
SessionTimeoutSeconds == 3600
DefaultLastAge == 5
MaxPassengers == 6
MaxOffers == 5

Users == {"u1", "u2"}
MainUsers == {"u1"}

NoSession == 0
NoTime == -1
NoOrder == 0
EmptyDict == <<>>

\* seconds between two arrivals of requests
Gaps == {0, 1, 2, 3600}
MainGaps == {1, 2, 3600}

-----------------------------------------------------------------------------
(* Input normaliser: str.strip, str.title, str.lower, str.upper,            *)
(* str.capitalize, str.isdigit and int() on the message bodies sent.        *)
(* "@+n" stands for the ISO date string of today + n days (no letters, so   *)
(* the case conversions leave it alone, as they leave "2025-01-31").        *)

Greets == {"hi", " HELLO "}
Bodies == Greets \cup {"goa", "", "@+0", "@+11", "1", "2", "9", "30", "0", "MALE",
                       "yes", "No", "CONFIRM", "paid", "Payment Done", "DONE", "later",
                       "-1", "@-1", "@+10", "^2"}

Strip(b) == CASE b = " HELLO " -> "HELLO" [] OTHER -> b

Title(r) ==
    CASE r = "hi" -> "Hi"
      [] r = "HELLO" -> "Hello"
      [] r = "goa" -> "Goa"
      [] r = "MALE" -> "Male"
      [] r = "yes" -> "Yes"
      [] r = "CONFIRM" -> "Confirm"
      [] r = "paid" -> "Paid"
      [] r = "DONE" -> "Done"
      [] r = "later" -> "Later"
      [] OTHER -> r

Lower(t) ==
    CASE t = "Hi" -> "hi"
      [] t = "Hello" -> "hello"
      [] t = "Start" -> "start"
      [] t = "Goa" -> "goa"
      [] t = "Male" -> "male"
      [] t = "Yes" -> "yes"
      [] t = "No" -> "no"
      [] t = "Confirm" -> "confirm"
      [] t = "Paid" -> "paid"
      [] t = "Payment Done" -> "payment done"
      [] t = "Done" -> "done"
      [] t = "Later" -> "later"
      [] OTHER -> t

Upper(t) ==
    CASE t = "Hi" -> "HI"
      [] t = "Hello" -> "HELLO"
      [] t = "Start" -> "START"
      [] t = "Goa" -> "GOA"
      [] t = "Male" -> "MALE"
      [] t = "Yes" -> "YES"
      [] t = "No" -> "NO"
      [] t = "Confirm" -> "CONFIRM"
      [] t = "Paid" -> "PAID"
      [] t = "Payment Done" -> "PAYMENT DONE"
      [] t = "Done" -> "DONE"
      [] t = "Later" -> "LATER"
      [] OTHER -> t

Capitalize(r) ==
    CASE r = "hi" -> "Hi"
      [] r = "HELLO" -> "Hello"
      [] r = "goa" -> "Goa"
      [] r = "MALE" -> "Male"
      [] r = "yes" -> "Yes"
      [] r = "CONFIRM" -> "Confirm"
      [] r = "paid" -> "Paid"
      [] r = "Payment Done" -> "Payment done"
      [] r = "DONE" -> "Done"
      [] r = "later" -> "Later"
      [] OTHER -> r

\* "^2" stands for the one-character string SUPERSCRIPT TWO (U+00B2): a digit
\* for str.isdigit, no number for int()
IsDigit(t) == t \in {"1", "2", "9", "30", "0", "^2"}

\* int(): the value, or NotInt for a ValueError
NotInt == -1000
IntOf(t) ==
    CASE t = "1" -> 1
      [] t = "2" -> 2
      [] t = "9" -> 9
      [] t = "30" -> 30
      [] t = "0" -> 0
      [] t = "-1" -> -1
      [] OTHER -> NotInt

\* datetime.strptime(.., "%Y-%m-%d"): days from today, or NotADate for a ValueError
NotADate == -1000
MaxDaysAhead == 10
DaysFromToday(t) ==
    CASE t = "@+0" -> 0
      [] t = "@+11" -> 11
      [] t = "@-1" -> -1
      [] t = "@+10" -> 10
      [] OTHER -> NotADate

\* a range test that leaves out the last day
is_valid_departure_date_Exclusive(date_str) ==
    LET d == DaysFromToday(date_str)
    IN  IF d = NotADate THEN FALSE ELSE 0 <= d /\ d < MaxDaysAhead

\* main.py:315-317: the dates the rejection reply lists, as days from today
ListedDays == 11
allowed_dates == [i \in 1 .. ListedDays |-> i - 1]

is_valid_departure_date(date_str) ==
    LET d == DaysFromToday(date_str)
    IN  IF d = NotADate THEN FALSE ELSE 0 <= d /\ d <= MaxDaysAhead

-----------------------------------------------------------------------------
(* Replies *)

R_Wait == "Please wait a moment before sending another message."
R_Welcome == "Welcome to FlightBot! Please enter the departure city name"
R_SessionStarted == "Session started. Please enter the departure city name"
R_Destination == "Great! Now enter the destination city name"
R_Date == "Awesome! Please enter the departure date"
R_InvalidDate == "Invalid date. Valid dates: today .. today+10"
R_InvalidCity == "Invalid city names. Please check and try again."
R_NoFlights == "No flights found. Try a different date or route."
R_Flights == "Available Flights"
R_Name == "Please enter the name of passenger"
R_InvalidChoice == "Invalid choice. Please reply with a number between 1 and 5."
R_Age == "Enter their age"
R_InvalidAge == "Please enter a valid age."
R_Gender == "Enter their gender"
R_InvalidGender == "Please enter a valid gender."
R_Seat == "Enter their preferred seat"
R_AddAnother == "Passenger added. Do you want to add another passenger?"
R_MaxReached == "Max 6 passengers reached. Reply confirm to proceed."
R_Completed == "Booking details completed. Reply confirm to proceed to payment."
R_YesNo == "Please reply with yes or no."
R_Unavailable == "Payment system unavailable. Please try again later."
R_LinkFailed == "Failed to create payment link. Please try again later."
R_BookingCreated == "Booking Created! Please complete your payment"
R_ReplyConfirm == "Please reply with confirm to proceed to payment."
R_InfoMissing == "Payment info missing. Please contact support."
R_PaymentConfirmed == "Payment confirmed. You can download your ticket here"
R_NotDetected == "Payment not detected yet."
R_Waiting == "Waiting for payment confirmation."
R_AlreadyConfirmed == "Your booking is already confirmed."
R_Corrupt == "Something went wrong. Session reset."
R_Error == "An error occurred. Please try again later. Reply hi to start again."
R_None == "(no reply yet)"

-----------------------------------------------------------------------------
(* The state as one value, so that a handler is a function from state to    *)
(* state: us = user_sessions, obj = objects, uli = user_last_interaction,   *)
(* hs = handlers, fb = flight_bookings, pr = passenger_rows,                *)
(* owner = second_owner.                                                    *)

Cur ==
    [us |-> user_sessions, obj |-> objects, uli |-> user_last_interaction,
     hs |-> handlers, fb |-> flight_bookings, pr |-> passenger_rows,
     owner |-> second_owner, audit |-> audit, last |-> last]

\* the dict literal of main.py:259-270 and 278-289 (last_interaction = current_time: age 0)
NewSession ==
    [step |-> "ask_origin", origin |-> "", destination |-> "", date |-> "",
     flights |-> <<>>, selected_flight |-> EmptyDict, passengers |-> <<>>,
     current_passenger |-> EmptyDict, payment_confirmed |-> FALSE,
     last_interaction |-> 0, razorpay_order_id |-> NoOrder]

NoAudit == [links |-> 0, verified |-> {}]

\* a + d seconds, as the comparisons of main.py:251 and main.py:277 see it
Elapsed(a, d) ==
    LET t == a + d
    IN  IF t > SessionTimeoutSeconds THEN SessionTimeoutSeconds + 1
        ELSE IF t = SessionTimeoutSeconds THEN t
        ELSE IF t >= DebounceSeconds THEN DebounceSeconds
        ELSE t

\* d seconds pass: every stored timestamp is d seconds older
Tick(s, d) ==
    [s EXCEPT
       !.uli = [v \in Users |-> IF s.uli[v] = NoTime THEN NoTime ELSE Elapsed(s.uli[v], d)],
       !.obj = [o \in DOMAIN s.obj |->
                  [s.obj[o] EXCEPT !.last_interaction = Elapsed(@, d)]],
       !.owner = IF d > 0 THEN 0 ELSE s.owner]

ObjIds == 1 .. (MaxInFlight + MaxBookings + Cardinality(Users) + 1)

Referenced(s) ==
    ({s.us[v] : v \in Users} \cup {s.hs[i].session : i \in DOMAIN s.hs}) \ {NoSession}

\* The webhook only ever inserts into the two tables and never reads them
\* (send_booking_history has no caller), so the rows written for a session dict
\* that no longer exists are dropped from the model when the next request of
\* that user arrives: they can influence nothing any more.
Forget(s, u) ==
    LET gone(k) == s.fb[k].whatsapp_id = u /\ s.fb[k].session \notin Referenced(s)
        pids == {s.fb[k].Pid : k \in {j \in DOMAIN s.fb : gone(j)}}
    IN  [s EXCEPT !.fb = SelectSeq(s.fb, LAMBDA r : r.Pid \notin pids),
                  !.pr = SelectSeq(s.pr, LAMBDA r : r.Pid \notin pids)]

\* Python frees a dict nobody refers to
Collect(s) ==
    [s EXCEPT !.obj = [o \in Referenced(s) |-> s.obj[o]],
              !.audit = [o \in Referenced(s) |-> s.audit[o]]]

\* user_sessions[user_id] = { ... }: a new dict object
FreshId(s, u) ==
    LET old == s.us[u]
        kept == {s.us[v] : v \in Users \ {u}} \cup {s.hs[i].session : i \in DOMAIN s.hs}
        used == DOMAIN s.obj \cup {s.fb[k].session : k \in DOMAIN s.fb}
    IN  IF old # NoSession /\ old \notin kept THEN old
        ELSE CHOOSE o \in ObjIds : o \notin used /\ \A p \in ObjIds \ used : o <= p

Say(s, u, text) == [s EXCEPT !.last = [user |-> u, reply |-> text]]

\* a reset that assigns only the step and keeps the answers collected
StartSession_KeepsAnswers(s, u) ==
    IF s.us[u] = NoSession
    THEN [s EXCEPT !.us[u] = FreshId(s, u),
                   !.obj = (FreshId(s, u) :> NewSession) @@ s.obj,
                   !.audit = (FreshId(s, u) :> NoAudit) @@ s.audit]
    ELSE [s EXCEPT !.obj[s.us[u]].step = "ask_origin",
                   !.obj[s.us[u]].last_interaction = 0]

\* user_sessions[user_id] = fresh session dict (main.py:259-270, 278-290)
StartSession(s, u) ==
    LET s0 == Forget([s EXCEPT !.us[u] = NoSession], u)
        o == FreshId(s, u)
    IN  [s0 EXCEPT !.us[u] = o,
                   !.obj = (o :> NewSession) @@ s.obj,
                   !.audit = (o :> NoAudit) @@ s.audit]

\* except Exception: user_sessions.pop(user_id, None) and the generic reply
Failed(s, u) == Say([s EXCEPT !.us[u] = NoSession], u, R_Error)

Suspend(s, h) == [s EXCEPT !.hs = Append(s.hs, h)]

Handler(u, o, pc) ==
    [user |-> u, session |-> o, pc |-> pc, origin_iata |-> FALSE,
     pid |-> 0, booking_reference |-> 0, link |-> 0, total_passengers |-> 0, i |-> 0]

-----------------------------------------------------------------------------
(* Step handlers: the synchronous part of each branch of main.py:297-565,   *)
(* on session object o of user u.                                           *)

AskOrigin(s, u, o, user_input) ==
    Say([s EXCEPT !.obj[o].origin = user_input,
                  !.obj[o].step = "ask_destination",
                  !.us[u] = o], u, R_Destination)

AskDestination(s, u, o, user_input) ==
    Say([s EXCEPT !.obj[o].destination = user_input,
                  !.obj[o].step = "ask_date",
                  !.us[u] = o], u, R_Date)

\* up to the first await (main.py:323)
AskDate(s, u, o, user_input) ==
    IF ~is_valid_departure_date(user_input)
    THEN Say(s, u, R_InvalidDate)
    ELSE Suspend([s EXCEPT !.obj[o].date = user_input], Handler(u, o, "iata_origin"))

\* a choice taken as a 0-based index
SelectFlight_ZeroBased(s, u, o, user_input) ==
    LET choice == IntOf(user_input)
    IN  IF choice = NotInt \/ choice \notin 0 .. (Len(s.obj[o].flights) - 1)
        THEN Say(s, u, R_InvalidChoice)
        ELSE Say([s EXCEPT !.obj[o].selected_flight = s.obj[o].flights[choice + 1],
                           !.obj[o].step = "ask_name",
                           !.us[u] = o], u, R_Name)

SelectFlight(s, u, o, user_input) ==
    LET n == IntOf(user_input)
        choice == n - 1
    IN  IF n = NotInt \/ choice \notin 0 .. (Len(s.obj[o].flights) - 1)
        THEN Say(s, u, R_InvalidChoice)
        ELSE Say([s EXCEPT !.obj[o].selected_flight = s.obj[o].flights[choice + 1],
                           !.obj[o].step = "ask_name",
                           !.us[u] = o], u, R_Name)

AskName(s, u, o, raw_input) ==
    Say([s EXCEPT !.obj[o].current_passenger = [name |-> Title(raw_input)],
                  !.obj[o].step = "ask_age",
                  !.us[u] = o], u, R_Age)

AskAge(s, u, o, user_input) ==
    IF ~IsDigit(user_input) THEN Say(s, u, R_InvalidAge)
    ELSE IF IntOf(user_input) = NotInt THEN Failed(s, u)
    ELSE IF IntOf(user_input) <= 0 THEN Say(s, u, R_InvalidAge)
    ELSE Say([s EXCEPT !.obj[o].current_passenger =
                            ("age" :> IntOf(user_input)) @@ s.obj[o].current_passenger,
                       !.obj[o].step = "ask_gender",
                       !.us[u] = o], u, R_Gender)

AskGender(s, u, o, raw_input) ==
    LET gender == Capitalize(raw_input)
    IN  IF gender \notin {"Male", "Female", "Other"}
        THEN Say(s, u, R_InvalidGender)
        ELSE Say([s EXCEPT !.obj[o].current_passenger =
                                ("gender" :> gender) @@ s.obj[o].current_passenger,
                           !.obj[o].step = "ask_seat",
                           !.us[u] = o], u, R_Seat)

\* a seat step that stores the finished passenger in the last place of the list
AskSeat_Overwrites(s, u, o, user_input) ==
    LET passenger == ("seat" :> Upper(user_input)) @@ s.obj[o].current_passenger
        old == s.obj[o].passengers
        passengers == IF old = <<>> THEN <<passenger>>
                      ELSE [old EXCEPT ![Len(old)] = passenger]
        s1 == [s EXCEPT !.obj[o].current_passenger = passenger,
                        !.obj[o].passengers = passengers,
                        !.us[u] = o]
    IN  IF Len(passengers) < MaxPassengers
        THEN Say([s1 EXCEPT !.obj[o].step = "add_another_passenger"], u, R_AddAnother)
        ELSE Say([s1 EXCEPT !.obj[o].step = "confirm_booking"], u, R_MaxReached)

AskSeat(s, u, o, user_input) ==
    LET passenger == ("seat" :> Upper(user_input)) @@ s.obj[o].current_passenger
        passengers == Append(s.obj[o].passengers, passenger)
        passenger_count == Len(passengers)
        s1 == [s EXCEPT !.obj[o].current_passenger = passenger,
                        !.obj[o].passengers = passengers,
                        !.us[u] = o]
    IN  IF passenger_count < MaxPassengers
        THEN Say([s1 EXCEPT !.obj[o].step = "add_another_passenger"], u, R_AddAnother)
        ELSE Say([s1 EXCEPT !.obj[o].step = "confirm_booking"], u, R_MaxReached)

AddAnotherPassenger(s, u, o, user_input) ==
    IF Lower(user_input) = "yes"
    THEN Say([s EXCEPT !.obj[o].step = "ask_name", !.us[u] = o], u, R_Name)
    ELSE IF Lower(user_input) = "no"
    THEN Say([s EXCEPT !.obj[o].step = "confirm_booking", !.us[u] = o], u, R_Completed)
    ELSE Say(s, u, R_YesNo)

\* f"FL-{datetime.now().strftime('%Y%m%d%H%M%S')}": one reference per clock second
BookingReference(s) ==
    IF s.owner # 0 THEN s.owner
    ELSE CHOOSE r \in 1 .. (Len(s.fb) + Len(s.hs) + 1) :
            /\ \A k \in DOMAIN s.fb : s.fb[k].booking_reference # r
            /\ \A k \in DOMAIN s.hs : s.hs[k].booking_reference # r
            /\ \A q \in 1 .. (r - 1) :
                  \/ \E k \in DOMAIN s.fb : s.fb[k].booking_reference = q
                  \/ \E k \in DOMAIN s.hs : s.hs[k].booking_reference = q

\* str(uuid.uuid4()), and the id of a new payment link: a value not in use
FreshPid(s) ==
    LET used == {s.fb[k].Pid : k \in DOMAIN s.fb} \cup {s.hs[k].pid : k \in DOMAIN s.hs}
                \cup {s.obj[o].razorpay_order_id : o \in DOMAIN s.obj}
                \cup UNION {s.audit[o].verified : o \in DOMAIN s.audit}
        ids == 1 .. (Cardinality(used) + 1)
    IN  CHOOSE p \in ids : p \notin used /\ \A q \in ids \ used : p <= q

\* a finalizer that does not look for id and short_url in the response
ConfirmBooking_NoResponseCheck(s, u, o, user_input, link_result) ==
    IF Lower(user_input) # "confirm" THEN Say(s, u, R_ReplyConfirm)
    ELSE IF s.obj[o].selected_flight = EmptyDict THEN Failed(s, u)
    ELSE IF razorpay_client = "none" THEN Say(s, u, R_Unavailable)
    ELSE IF link_result = "raised" THEN Say(s, u, R_LinkFailed)
    ELSE Suspend([s EXCEPT !.owner = BookingReference(s),
                           !.audit[o].links = @ + 1],
                 [Handler(u, o, "insert_booking") EXCEPT
                    !.pid = FreshPid(s), !.booking_reference = BookingReference(s),
                    !.link = FreshPid(s),
                    !.total_passengers = Len(s.obj[o].passengers)])

\* up to the first await (main.py:456); link_result is what payment_link.create did
ConfirmBooking(s, u, o, user_input, link_result) ==
    IF Lower(user_input) # "confirm" THEN Say(s, u, R_ReplyConfirm)
    ELSE IF s.obj[o].selected_flight = EmptyDict THEN Failed(s, u)
    ELSE IF razorpay_client = "none" THEN Say(s, u, R_Unavailable)
    ELSE IF link_result # "created" THEN Say(s, u, R_LinkFailed)
    ELSE LET id == FreshPid(s)
             ref == BookingReference(s)
         IN  Suspend([s EXCEPT !.owner = ref,
                               !.audit[o].links = @ + 1],
                     [Handler(u, o, "insert_booking") EXCEPT
                        !.pid = id, !.booking_reference = ref, !.link = id,
                        !.total_passengers = Len(s.obj[o].passengers)])

\* a status check that fails open: an error of the payments call counts as paid
check_payment_status_FailOpen(order_id, payments) ==
    IF razorpay_client = "none" THEN FALSE
    ELSE payments \in {"captured", "error"}

\* main.py:201-213; payments is what razorpay_client.order.payments did
check_payment_status(order_id, payments) ==
    IF razorpay_client = "none" THEN FALSE
    ELSE payments = "captured"

\* main.py:533 reads the local booking_reference, which only the confirm_booking
\* branch of the same call assigns (main.py:419)
TicketReferenceBound(step) == step = "confirm_booking"

\* a keyword list that also takes any mention of paying later as a keyword
PaymentKeywords_Wider == {"paid", "payment done", "done", "later"}

\* main.py:522
PaymentKeywords == {"paid", "payment done", "done"}

AwaitingPayment(s, u, o, user_input, payments) ==
    IF Lower(user_input) \notin PaymentKeywords
    THEN Say(s, u, R_Waiting)
    ELSE LET razorpay_order_id == s.obj[o].razorpay_order_id
         IN  IF razorpay_order_id = NoOrder THEN Say(s, u, R_InfoMissing)
             ELSE IF check_payment_status(razorpay_order_id, payments)
             THEN LET s1 == [s EXCEPT !.obj[o].payment_confirmed = TRUE,
                                      !.obj[o].step = "booking_confirmed",
                                      !.us[u] = o,
                                      !.audit[o].verified = @ \cup {razorpay_order_id}]
                  IN  IF TicketReferenceBound("awaiting_payment")
                      THEN Say(s1, u, R_PaymentConfirmed)
                      ELSE Failed(s1, u)
             ELSE Say(s, u, R_NotDetected)

BookingConfirmed(s, u) == Say(s, u, R_AlreadyConfirmed)

\* an unknown step that is reported but left in the store
UnknownStep_KeepsSession(s, u) == Say(s, u, R_Corrupt)

UnknownStep(s, u) == Say([s EXCEPT !.us[u] = NoSession], u, R_Corrupt)

\* what the outside world answers to the calls made while serving one request
Answers == [link : {"created", "raised", "malformed"}, payments : {"captured", "none", "error"}]

\* the answers that matter in a step: only confirm_booking creates a payment
\* link, only awaiting_payment asks for the payments of an order
AnswersIn(step) ==
    CASE step = "confirm_booking" -> [link : {"created", "raised", "malformed"}, payments : {"none"}]
      [] step = "awaiting_payment" -> [link : {"created"}, payments : {"captured", "none", "error"}]
      [] OTHER -> [link : {"created"}, payments : {"none"}]

Dispatch(s, u, o, raw_input, user_input, ans) ==
    LET step == s.obj[o].step
    IN  CASE step = "ask_origin" -> AskOrigin(s, u, o, user_input)
          [] step = "ask_destination" -> AskDestination(s, u, o, user_input)
          [] step = "ask_date" -> AskDate(s, u, o, user_input)
          [] step = "select_flight" -> SelectFlight(s, u, o, user_input)
          [] step = "ask_name" -> AskName(s, u, o, raw_input)
          [] step = "ask_age" -> AskAge(s, u, o, user_input)
          [] step = "ask_gender" -> AskGender(s, u, o, raw_input)
          [] step = "ask_seat" -> AskSeat(s, u, o, user_input)
          [] step = "add_another_passenger" -> AddAnotherPassenger(s, u, o, user_input)
          [] step = "confirm_booking" -> ConfirmBooking(s, u, o, user_input, ans.link)
          [] step = "awaiting_payment" -> AwaitingPayment(s, u, o, user_input, ans.payments)
          [] step = "booking_confirmed" -> BookingConfirmed(s, u)
          [] OTHER -> UnknownStep(s, u)

\* a debounce window that includes its end
Debounced_Inclusive(s, u) ==
    LET last_interaction_time == IF s.uli[u] = NoTime THEN DefaultLastAge ELSE s.uli[u]
    IN  last_interaction_time <= DebounceSeconds

\* main.py:258
GreetingWords == {"Hi", "Hello", "Start"}

\* main.py:249-251
Debounced(s, u) ==
    LET last_interaction_time == IF s.uli[u] = NoTime THEN DefaultLastAge ELSE s.uli[u]
    IN  last_interaction_time < DebounceSeconds

\* a session timeout that includes its end
Expired_Inclusive(s, u) ==
    \/ s.us[u] = NoSession
    \/ s.obj[s.us[u]].last_interaction >= SessionTimeoutSeconds

\* main.py:277
Expired(s, u) ==
    \/ s.us[u] = NoSession
    \/ s.obj[s.us[u]].last_interaction > SessionTimeoutSeconds

\* a webhook that looks for the greeting before the debounce check
whatsapp_webhook_GreetingFirst(s, u, body, ans) ==
    LET raw_input == Strip(body)
        user_input == Title(raw_input)
        s1 == [s EXCEPT !.uli[u] = 0]
    IN  IF user_input \in GreetingWords
        THEN Say(StartSession(s1, u), u, R_Welcome)
        ELSE IF Debounced(s, u) THEN Say(s, u, R_Wait)
        ELSE IF Expired(s1, u)
        THEN Say(StartSession(s1, u), u, R_SessionStarted)
        ELSE LET o == s1.us[u]
                 s2 == [s1 EXCEPT !.obj[o].last_interaction = 0]
             IN  Dispatch(s2, u, o, raw_input, user_input, ans)

\* whatsapp_webhook from main.py:241 to its return or its first await, on the
\* state s read when the request arrives
whatsapp_webhook(s, u, body, ans) ==
    LET raw_input == Strip(body)
        user_input == Title(raw_input)
    IN  IF Debounced(s, u) THEN Say(s, u, R_Wait)
        ELSE LET s1 == [s EXCEPT !.uli[u] = 0]
             IN  IF user_input \in GreetingWords
                 THEN Say(StartSession(s1, u), u, R_Welcome)
                 ELSE IF Expired(s1, u)
                 THEN Say(StartSession(s1, u), u, R_SessionStarted)
                 ELSE LET o == s1.us[u]
                          s2 == [s1 EXCEPT !.obj[o].last_interaction = 0]
                      IN  Dispatch(s2, u, o, raw_input, user_input, ans)

\* the whole effect of a request with body `body` from u arriving d seconds
\* after the previous request
Serve(s, u, body, d, ans) == Collect(whatsapp_webhook(Forget(Tick(s, d), u), u, body, ans))

-----------------------------------------------------------------------------
(* The rest of a handler: what runs when an await returns.  i is the        *)
(* position of the coroutine in handlers, result what the awaited call did. *)

RemoveAt(q, i) == SubSeq(q, 1, i - 1) \o SubSeq(q, i + 1, Len(q))

Done(s, i) == [s EXCEPT !.hs = RemoveAt(s.hs, i)]

\* main.py:323 returns; result: "code", "none" (no data) or "raised"
AfterIataOrigin(s, i, result) ==
    LET h == s.hs[i]
    IN  IF result = "raised" THEN Failed(Done(s, i), h.user)
        ELSE [s EXCEPT !.hs[i].pc = "iata_destination",
                       !.hs[i].origin_iata = (result = "code")]

\* main.py:324-326
AfterIataDestination(s, i, result) ==
    LET h == s.hs[i]
    IN  IF result = "raised" THEN Failed(Done(s, i), h.user)
        ELSE IF ~h.origin_iata \/ result # "code"
        THEN Say(Done(s, i), h.user, R_InvalidCity)
        ELSE [s EXCEPT !.hs[i].pc = "search_offers"]

Offers(n) == [k \in 1 .. n |-> [offer |-> k]]

\* main.py:328-346; found: the number of offers the search returned, or -1 if it raised
AfterSearch(s, i, found) ==
    LET h == s.hs[i]
        o == h.session
        offers == Offers(found)
    IN  IF found < 0 THEN Failed(Done(s, i), h.user)
        ELSE IF offers = <<>> THEN Say(Done(s, i), h.user, R_NoFlights)
        ELSE Say([Done(s, i) EXCEPT
                     !.obj[o].flights = SubSeq(offers, 1, IF found < MaxOffers THEN found ELSE MaxOffers),
                     !.obj[o].step = "select_flight",
                     !.us[h.user] = o], h.user, R_Flights)

\* main.py:500-515
FinishBooking(s, i) ==
    LET h == s.hs[i]
        o == h.session
    IN  Say([Done(s, i) EXCEPT !.obj[o].step = "awaiting_payment",
                               !.obj[o].razorpay_order_id = h.link,
                               !.us[h.user] = o], h.user, R_BookingCreated)

\* for p in session["passengers"]: the next await, or the end of the loop
NextPassenger(s, i, k) ==
    IF k <= Len(s.obj[s.hs[i].session].passengers)
    THEN [s EXCEPT !.hs[i].pc = "insert_passenger", !.hs[i].i = k]
    ELSE FinishBooking(s, i)

\* main.py:456-476 returns; flight_bookings.booking_reference is UNIQUE (main.py:118)
AfterInsertBooking(s, i, result) ==
    LET h == s.hs[i]
        o == h.session
        duplicate == \E k \in DOMAIN s.fb : s.fb[k].booking_reference = h.booking_reference
        row == [Pid |-> h.pid, whatsapp_id |-> h.user, session |-> o,
                total_passengers |-> h.total_passengers,
                booking_reference |-> h.booking_reference,
                razorpay_order_id |-> h.link]
    IN  IF result = "raised" \/ duplicate THEN Failed(Done(s, i), h.user)
        ELSE NextPassenger([s EXCEPT !.fb = Append(s.fb, row)], i, 1)

\* main.py:485-498 returns for passenger number h.i
AfterInsertPassenger(s, i, result) ==
    LET h == s.hs[i]
        p == s.obj[h.session].passengers[h.i]
        row == [Pid |-> h.pid, p_name |-> p.name, gender |-> p.gender, seat |-> p.seat]
    IN  IF result = "raised" THEN Failed(Done(s, i), h.user)
        ELSE NextPassenger([s EXCEPT !.pr = Append(s.pr, row)], i, h.i + 1)

Resume(s, i, result) ==
    LET pc == s.hs[i].pc
    IN  Collect(CASE pc = "iata_origin" -> AfterIataOrigin(s, i, result)
                  [] pc = "iata_destination" -> AfterIataDestination(s, i, result)
                  [] pc = "insert_booking" -> AfterInsertBooking(s, i, result)
                  [] pc = "insert_passenger" -> AfterInsertPassenger(s, i, result))

-----------------------------------------------------------------------------
(* The state machine *)

Install(s) ==
    /\ user_sessions' = s.us
    /\ objects' = s.obj
    /\ user_last_interaction' = s.uli
    /\ handlers' = s.hs
    /\ flight_bookings' = s.fb
    /\ passenger_rows' = s.pr
    /\ second_owner' = s.owner
    /\ audit' = s.audit
    /\ last' = s.last
    /\ UNCHANGED razorpay_client

Init ==
    /\ user_sessions = [u \in Users |-> NoSession]
    /\ objects = <<>>
    /\ user_last_interaction = [u \in Users |-> NoTime]
    /\ handlers = <<>>
    /\ razorpay_client \in {"client", "none"}
    /\ flight_bookings = <<>>
    /\ passenger_rows = <<>>
    /\ second_owner = 0
    /\ audit = <<>>
    /\ last = [user |-> "nobody", reply |-> R_None]

StepOf(u) == IF user_sessions[u] = NoSession THEN "none" ELSE objects[user_sessions[u]].step

PassengersOf(u) ==
    IF user_sessions[u] = NoSession THEN 0 ELSE Len(objects[user_sessions[u]].passengers)

\* what a user sends and when: the party sizes at which the answer to one more
\* passenger is "no", whether the answer is ever "yes", the flight numbers
\* picked, whether a greeting is sent while an earlier request is still being
\* served, and the awaits during which the user sends the next message
Lookups == {"iata_origin", "iata_destination", "search_offers"}
Inserts == {"insert_booking", "insert_passenger"}
AnyUser ==
    [sizes |-> 1 .. MaxPassengers, more |-> TRUE, picks |-> {"1", "2", "9"},
     impatient |-> TRUE, during |-> {}]
RaceUser ==
    [sizes |-> {1}, more |-> TRUE, picks |-> {"1", "9"},
     impatient |-> FALSE, during |-> Lookups]
PayUser ==
    [sizes |-> {1}, more |-> FALSE, picks |-> {"1"},
     impatient |-> TRUE, during |-> Inserts]

\* the bodies a user sends in a step: the answers the step tells apart, one
\* text for the steps that take any text
Sendable(u, user) ==
    LET step == StepOf(u)
    IN
    (IF user.impatient \/ handlers = <<>> THEN Greets ELSE {}) \cup
    CASE step \in {"none", "ask_origin", "ask_destination", "ask_name", "ask_seat"} -> {"goa"}
      [] step = "ask_date" -> {"@+0", "@+11", "goa"}
      [] step = "select_flight" -> user.picks \cup {"goa"}
      [] step = "ask_age" -> {"30", "0", "goa"}
      [] step = "ask_gender" -> {"MALE", "goa"}
      [] step = "add_another_passenger" ->
            {"goa"} \cup (IF user.more THEN {"yes"} ELSE {})
                    \cup (IF PassengersOf(u) \in user.sizes THEN {"No"} ELSE {})
      [] step = "confirm_booking" -> {"CONFIRM", "goa"}
      [] step = "awaiting_payment" -> {"paid", "Payment Done", "DONE", "later"}
      [] OTHER -> {"goa"}

\* the numbers of offers a search returns
SearchResults == {0, 2, 6}
RaceResults == {0, 1, 6}

RowsInUse(s) ==
    Len(s.fb) + Cardinality({k \in DOMAIN s.hs : s.hs[k].pc = "insert_booking"})

\* a request arrives when no coroutine is suspended, and runs to its return or
\* to its first await
Request(u, body, d, ans) ==
    /\ handlers = <<>>
    /\ Install(Serve(Cur, u, body, d, ans))

\* a request arrives while earlier ones may still be suspended at one of the
\* awaits in `during`
RaceRequest(u, body, d, ans, during) ==
    LET s == Serve(Cur, u, body, d, ans)
    IN  /\ \A i \in DOMAIN handlers : handlers[i].pc \in during
        /\ Len(s.hs) <= MaxInFlight
        /\ RowsInUse(s) <= MaxBookings
        /\ Install(s)

\* an awaited call of a suspended handler returns
Return(i, result) ==
    /\ handlers[i].pc # "search_offers"
    /\ Install(Resume(Cur, i, result))

SearchReturn(i, found) ==
    /\ handlers[i].pc = "search_offers"
    /\ Install(Collect(AfterSearch(Cur, i, found)))

Returns(failures, results) ==
    \/ \E i \in DOMAIN handlers, result \in {"code", "none"} \cup failures :
          handlers[i].pc \in {"iata_origin", "iata_destination"} /\ Return(i, result)
    \/ \E i \in DOMAIN handlers, result \in {"ok"} \cup failures :
          handlers[i].pc \in {"insert_booking", "insert_passenger"} /\ Return(i, result)
    \/ \E i \in DOMAIN handlers, found \in results : SearchReturn(i, found)

Next ==
    \/ \E u \in MainUsers, d \in MainGaps :
          \E body \in Sendable(u, AnyUser), ans \in AnswersIn(StepOf(u)) :
             Request(u, body, d, ans)
    \/ Returns({"raised"}, SearchResults \cup {-1})

\* requests served one at a time
Spec == Init /\ [][Next]_vars

\* one user whose requests arrive 2 s apart, also while the city and flight
\* lookups of earlier requests are still running, for any number of requests
NextRace ==
    \/ \E u \in MainUsers :
          \E body \in Sendable(u, RaceUser), ans \in AnswersIn(StepOf(u)) :
             RaceRequest(u, body, DebounceSeconds, ans, RaceUser.during)
    \/ Returns({"raised"}, RaceResults \cup {-1})

SpecRace == Init /\ [][NextRace]_vars

\* one user booking for one passenger whose requests arrive 2 s apart, also
\* while the database inserts of earlier requests are still running
NextPay ==
    \/ \E u \in MainUsers :
          \E body \in Sendable(u, PayUser), ans \in AnswersIn(StepOf(u)) :
             RaceRequest(u, body, DebounceSeconds, ans, PayUser.during)
    \/ Returns({}, {0, 1})

SpecPay == Init /\ [][NextPay]_vars

\* what a user who books for one passenger and answers each step as asked
\* sends in the step the session is in
Straight(u) ==
    LET step == StepOf(u)
    IN  CASE step = "none" -> {"hi"}
          [] step = "ask_date" -> {"@+0"}
          [] step = "select_flight" -> {"1"}
          [] step = "ask_age" -> {"30"}
          [] step = "ask_gender" -> {"MALE"}
          [] step = "add_another_passenger" -> {"No"}
          [] step = "confirm_booking" -> {"CONFIRM"}
          [] step = "awaiting_payment" -> {"later"}
          [] OTHER -> {"goa"}

\* two such users whose requests arrive in the same clock second or 2 s
\* apart, also while the database inserts of earlier requests are running
NextTwo ==
    \/ \E u \in Users, d \in {0, DebounceSeconds} :
          \E body \in Straight(u), ans \in AnswersIn(StepOf(u)) :
             RaceRequest(u, body, d, ans, Inserts)
    \/ Returns({}, {1})

SpecTwo == Init /\ [][NextTwo]_vars

-----------------------------------------------------------------------------
(* Claims *)

\* the session dict stored for u, for a user who has one
Stored(u) == objects[user_sessions[u]]

HasSession(u) == user_sessions[u] # NoSession

CollectingSteps == {"ask_name", "ask_age", "ask_gender", "ask_seat", "add_another_passenger"}

\* the state a request of u arriving d seconds after the previous one reads
Arrival(d) == Tick(Cur, d)

\* the request reaches the step dispatch of main.py:297
Dispatched(u, body, d) ==
    /\ HasSession(u)
    /\ ~Debounced(Arrival(d), u)
    /\ Title(Strip(body)) \notin GreetingWords
    /\ ~Expired(Arrival(d), u)

AnyAnswer == [link |-> "created", payments |-> "none"]
Captured == [link |-> "created", payments |-> "captured"]

KeywordBodies == {"paid", "Payment Done", "DONE"}

\* C1 (as stated): at awaiting_payment with a stored payment reference, a
\* payment keyword whose status check returns true leaves the session stored
\* with step booking_confirmed and payment_confirmed true, and the reply is
\* the payment-confirmed reply.
C1_Original ==
    \A u \in MainUsers, d \in MainGaps, body \in KeywordBodies :
        LET s == Serve(Cur, u, body, d, Captured)
        IN  (/\ handlers = <<>>
             /\ Dispatched(u, body, d)
             /\ Stored(u).step = "awaiting_payment"
             /\ Stored(u).razorpay_order_id # NoOrder)
            => /\ s.us[u] # NoSession
               /\ s.obj[s.us[u]].step = "booking_confirmed"
               /\ s.obj[s.us[u]].payment_confirmed
               /\ s.last.reply = R_PaymentConfirmed

\* C2 (as stated): no stored session ever holds more than 6 passengers, the
\* 6th passenger takes the session to confirm_booking and not to
\* add_another_passenger, and a session that holds 6 passengers is never again
\* in a step that collects a passenger.
C2_Original ==
    \A u \in Users :
        HasSession(u) =>
            /\ Len(Stored(u).passengers) <= MaxPassengers
            /\ Len(Stored(u).passengers) = MaxPassengers => Stored(u).step \notin CollectingSteps

BookingsOf(o) == {k \in DOMAIN flight_bookings : flight_bookings[k].session = o}

\* C3 (as stated): for one session dict, that is between two resets of the
\* user's session, at most one payment link and at most one booking record
\* are created, whatever the interleaving of the user's messages.
C3_Original ==
    \A o \in DOMAIN objects :
        /\ audit[o].links <= 1
        /\ Cardinality(BookingsOf(o)) <= 1

\* C4: from any step and with any collected data, a request whose canonical
\* form is Hi, Hello or Start that is not debounced leaves the user with a
\* session equal to the initial one (step ask_origin, every collected field
\* empty, payment_confirmed false), and the reply is the welcome prompt.
C4_GreetingResets ==
    \A u \in MainUsers, d \in Gaps, body \in Greets \cup {"Start"}, ans \in Answers :
        LET s == Serve(Cur, u, body, d, ans)
        IN  ~Debounced(Arrival(d), u)
            => /\ s.us[u] # NoSession
               /\ s.obj[s.us[u]] = NewSession
               /\ s.last = [user |-> u, reply |-> R_Welcome]

\* C4 witness: a session at awaiting_payment, with a flight, a passenger and a
\* payment reference, that a greeting resets.
C4_Witness ==
    /\ HasSession("u1")
    /\ Stored("u1").step = "awaiting_payment"
    /\ Stored("u1").passengers # <<>>
    /\ Stored("u1").razorpay_order_id # NoOrder
    /\ LET s == Serve(Cur, "u1", " HELLO ", DebounceSeconds, AnyAnswer)
       IN  s.obj[s.us["u1"]] = NewSession /\ s.last.reply = R_Welcome

\* C5: a request of u that arrives less than 2 s after u's last processed
\* request gets the wait notice and changes nothing: the sessions, the
\* suspended handlers and both kinds of timestamp are as they were (every age
\* has only grown by the time passed); and a further request that arrives at
\* least 2 s after the processed one passes the debounce check (its arrival
\* becomes the user's last interaction), however soon it comes after the
\* rejected one.
C5_DebounceChangesNothing ==
    \A u \in MainUsers, d1 \in {0, 1} :
        (user_last_interaction[u] # NoTime /\ user_last_interaction[u] + d1 < DebounceSeconds)
        => /\ \A body \in Bodies, ans \in Answers :
                 LET s == Serve(Cur, u, body, d1, ans)
                 IN  /\ s.last = [user |-> u, reply |-> R_Wait]
                     /\ s.us = Arrival(d1).us
                     /\ s.obj = Arrival(d1).obj
                     /\ s.uli = Arrival(d1).uli
                     /\ s.hs = Arrival(d1).hs
                     /\ s.audit = Arrival(d1).audit
           /\ \A d2 \in Gaps, body \in Bodies :
                 user_last_interaction[u] + d1 + d2 >= DebounceSeconds
                 => Serve(Serve(Cur, u, "goa", d1, AnyAnswer), u, body, d2, AnyAnswer).uli[u] = 0

\* C5 witness: a request was rejected 1 s after the one that stored the origin,
\* and the request 1 s after the rejected one is processed.
C5_Witness ==
    /\ last = [user |-> "u1", reply |-> R_Wait]
    /\ HasSession("u1")
    /\ Stored("u1").step = "ask_destination"
    /\ user_last_interaction["u1"] = 1
    /\ Stored("u1").last_interaction = 1
    /\ Serve(Cur, "u1", "goa", 1, AnyAnswer).last.reply = R_Date

\* C6: a request that is neither debounced nor a greeting, of a user with no
\* session or with a session whose last_interaction is more than 3600 s old,
\* leaves the user with the initial session (step ask_origin, origin empty)
\* and the session-started reply; with a session at most 3600 s old the same
\* dict stays (or is discarded by a failure), a session beyond ask_origin does
\* not return to it and keeps its origin, and last_interaction is the arrival
\* time whatever the step handler replies.
C6_ExpiryAndRefresh ==
    \A u \in MainUsers, d \in Gaps, body \in Bodies, ans \in Answers :
        LET t == Arrival(d)
            o == user_sessions[u]
            s == Serve(Cur, u, body, d, ans)
        IN  (~Debounced(t, u) /\ Title(Strip(body)) \notin {"Hi", "Hello", "Start"})
            => IF o = NoSession \/ t.obj[o].last_interaction > SessionTimeoutSeconds
               THEN /\ s.us[u] # NoSession
                    /\ s.obj[s.us[u]] = NewSession
                    /\ s.last = [user |-> u, reply |-> R_SessionStarted]
               ELSE /\ s.us[u] \in {o, NoSession}
                    /\ s.us[u] = o =>
                          /\ s.obj[o].last_interaction = 0
                          /\ objects[o].step # "ask_origin" =>
                                /\ s.obj[o].step # "ask_origin"
                                /\ s.obj[o].origin = objects[o].origin

\* C6 witness: a session just started by the expiry rule; a city name that
\* arrives exactly 3600 s later is stored as its origin, one second more and
\* the session is started again.
C6_Witness ==
    /\ last = [user |-> "u1", reply |-> R_SessionStarted]
    /\ HasSession("u1")
    /\ Stored("u1") = NewSession
    /\ LET s == Serve(Cur, "u1", "goa", SessionTimeoutSeconds, AnyAnswer)
       IN  s.obj[s.us["u1"]].step = "ask_destination" /\ s.obj[s.us["u1"]].origin = "Goa"
    /\ LET s1 == Serve(Cur, "u1", "", 1, AnyAnswer)
           s2 == Serve(s1, "u1", "goa", SessionTimeoutSeconds, AnyAnswer)
       IN  s1.last.reply = R_Wait /\ s2.last.reply = R_SessionStarted
                                  /\ s2.obj[s2.us["u1"]] = NewSession

\* C7: at awaiting_payment, a dispatched request whose text is none of paid,
\* payment done, done (in any case) gets the waiting reply and leaves the
\* session as it was but for last_interaction: step awaiting_payment,
\* payment_confirmed false, every collected field, the rows and the suspended
\* handlers unchanged; the outcome does not depend on what a payment-status
\* check would answer (none is made, and no ticket is generated: nothing
\* fails); and the same holds for the next such request.
C7_OtherTextWaits ==
    \A u \in MainUsers, d \in Gaps, body \in Bodies, ans \in Answers :
        LET t == Arrival(d)
            o == user_sessions[u]
            s == Serve(Cur, u, body, d, ans)
        IN  (/\ Dispatched(u, body, d)
             /\ Stored(u).step = "awaiting_payment"
             /\ Lower(Title(Strip(body))) \notin {"paid", "payment done", "done"})
            => /\ s.last = [user |-> u, reply |-> R_Waiting]
               /\ s.us = t.us
               /\ s.obj = [t.obj EXCEPT ![o].last_interaction = 0]
               /\ s.obj[o].step = "awaiting_payment"
               /\ ~s.obj[o].payment_confirmed
               /\ s.audit = t.audit /\ s.hs = t.hs /\ s.fb = t.fb /\ s.pr = t.pr
               /\ s = Serve(Cur, u, body, d, Captured)
               /\ LET s2 == Serve(s, u, body, DebounceSeconds, ans)
                  IN  /\ s2.last = [user |-> u, reply |-> R_Waiting]
                      /\ s2.obj = s.obj

\* C7 witness: a session waiting for its payment that has just answered
\* another text with the waiting reply, and answers the next one the same
\* although a payment is captured by then.
C7_Witness ==
    /\ last = [user |-> "u1", reply |-> R_Waiting]
    /\ HasSession("u1")
    /\ Stored("u1").step = "awaiting_payment"
    /\ ~Stored("u1").payment_confirmed
    /\ Stored("u1").razorpay_order_id # NoOrder
    /\ Serve(Cur, "u1", "later", DebounceSeconds, Captured).last.reply = R_Waiting

\* C8: the status check is true only with a client and a captured payment;
\* at awaiting_payment with a stored payment reference, a dispatched payment
\* keyword whose check finds no captured payment or raises gets the
\* not-yet-detected reply and leaves the session stored, at awaiting_payment
\* with payment_confirmed false and nothing but last_interaction changed; a
\* later keyword runs the check again: not detected when it is false again,
\* another outcome when a payment is captured by then.
C8_NotDetectedKeepsState ==
    /\ \A p \in {"captured", "none", "error"} :
          check_payment_status(1, p) <=> (razorpay_client = "client" /\ p = "captured")
    /\ \A u \in MainUsers, d \in Gaps, body \in KeywordBodies, p \in {"none", "error"} :
          LET t == Arrival(d)
              o == user_sessions[u]
              s == Serve(Cur, u, body, d, [link |-> "created", payments |-> p])
          IN  (/\ Dispatched(u, body, d)
               /\ Stored(u).step = "awaiting_payment"
               /\ Stored(u).razorpay_order_id # NoOrder)
              => /\ s.last = [user |-> u, reply |-> R_NotDetected]
                 /\ s.us = t.us
                 /\ s.obj = [t.obj EXCEPT ![o].last_interaction = 0]
                 /\ s.obj[o].step = "awaiting_payment"
                 /\ ~s.obj[o].payment_confirmed
                 /\ \A q \in {"none", "error"} :
                       Serve(s, u, body, DebounceSeconds,
                             [link |-> "created", payments |-> q]).last.reply = R_NotDetected
                 /\ Serve(s, u, body, DebounceSeconds, Captured).last.reply # R_NotDetected

\* C8 witness: a session waiting for its payment that has just answered a
\* keyword with the not-yet-detected reply, and does so again when the check
\* raises.
C8_Witness ==
    /\ last = [user |-> "u1", reply |-> R_NotDetected]
    /\ HasSession("u1")
    /\ Stored("u1").step = "awaiting_payment"
    /\ ~Stored("u1").payment_confirmed
    /\ Serve(Cur, "u1", "paid", DebounceSeconds,
             [link |-> "created", payments |-> "error"]).last.reply = R_NotDetected

\* C9 (as stated): a stored session with payment_confirmed true has a
\* non-empty razorpay_order_id, and the status check returned true for that
\* id earlier in the same session.
C9_Original ==
    \A u \in Users :
        (HasSession(u) /\ Stored(u).payment_confirmed)
        => /\ Stored(u).razorpay_order_id # NoOrder
           /\ Stored(u).razorpay_order_id \in audit[user_sessions[u]].verified

\* C10 (as stated): in a stored session selected_flight is non-empty only in
\* the steps from ask_name to booking_confirmed; it is empty in ask_origin,
\* ask_destination, ask_date and select_flight.
C10_Original ==
    \A u \in Users :
        (HasSession(u) /\ Stored(u).selected_flight # EmptyDict)
        => Stored(u).step \in CollectingSteps \cup
                              {"confirm_booking", "awaiting_payment", "booking_confirmed"}

\* the session dict of u after a request that only refreshed last_interaction
Refreshed(u, d) == [Arrival(d).obj[user_sessions[u]] EXCEPT !.last_interaction = 0]

\* C11: at select_flight the session holds n offers, 1 <= n <= 5; a dispatched
\* text that int() reads as k with 1 <= k <= n stores the k-th offer as
\* selected_flight and moves to ask_name; any other text (no integer, 0,
\* negative, k > n) gets the invalid-choice reply and changes nothing in the
\* session but last_interaction.
C11_SelectFlightIndex ==
    \A u \in MainUsers, d \in Gaps, body \in Bodies :
        LET o == user_sessions[u]
            s == Serve(Cur, u, body, d, AnyAnswer)
            n == Len(objects[o].flights)
            k == IntOf(Title(Strip(body)))
        IN  (Dispatched(u, body, d) /\ Stored(u).step = "select_flight")
            => /\ 1 <= n /\ n <= MaxOffers
               /\ s.us[u] = o
               /\ IF k # NotInt /\ 1 <= k /\ k <= n
                  THEN /\ s.obj[o] = [Refreshed(u, d) EXCEPT
                                         !.selected_flight = objects[o].flights[k],
                                         !.step = "ask_name"]
                       /\ s.last = [user |-> u, reply |-> R_Name]
                  ELSE /\ s.obj[o] = Refreshed(u, d)
                       /\ s.last = [user |-> u, reply |-> R_InvalidChoice]

\* C11 witness: a session with two offers that has just rejected a choice; "2"
\* selects the second offer, "9", "0", "-1" and a word are rejected.
C11_Witness ==
    /\ last = [user |-> "u1", reply |-> R_InvalidChoice]
    /\ HasSession("u1")
    /\ Stored("u1").step = "select_flight"
    /\ Len(Stored("u1").flights) = 2
    /\ Stored("u1").selected_flight = EmptyDict
    /\ LET s == Serve(Cur, "u1", "2", DebounceSeconds, AnyAnswer)
       IN  /\ s.obj[s.us["u1"]].selected_flight = Stored("u1").flights[2]
           /\ s.obj[s.us["u1"]].step = "ask_name"
    /\ \A body \in {"9", "0", "-1", "goa"} :
          Serve(Cur, "u1", body, DebounceSeconds, AnyAnswer).last.reply = R_InvalidChoice

\* the days from today of the date a body names, if it names one
DayOf(body) == DaysFromToday(Title(Strip(body)))

InRange(body) == DayOf(body) # NotADate /\ 0 <= DayOf(body) /\ DayOf(body) <= MaxDaysAhead

\* C12: validation accepts a text exactly when it is a date from today to
\* today + 10 days, and the 11 dates that the rejection reply lists are
\* exactly the dates accepted; at ask_date a dispatched text that is rejected
\* (earlier, later, no date) gets the invalid-date reply and changes nothing
\* in the session but last_interaction (step ask_date, date as before, no
\* lookup started), and an accepted one is stored as the date.
C12_DateWindow ==
    /\ Len(allowed_dates) = MaxDaysAhead + 1
    /\ \A body \in Bodies :
          /\ is_valid_departure_date(Title(Strip(body))) <=> InRange(body)
          /\ InRange(body) <=> \E i \in DOMAIN allowed_dates : allowed_dates[i] = DayOf(body)
    /\ \A u \in MainUsers, d \in Gaps, body \in Bodies :
          LET o == user_sessions[u]
              s == Serve(Cur, u, body, d, AnyAnswer)
          IN  (Dispatched(u, body, d) /\ Stored(u).step = "ask_date")
              => /\ s.us[u] = o
                 /\ IF InRange(body)
                    THEN /\ s.obj[o] = [Refreshed(u, d) EXCEPT !.date = Title(Strip(body))]
                         /\ Len(s.hs) = Len(handlers) + 1
                    ELSE /\ s.obj[o] = Refreshed(u, d)
                         /\ s.hs = handlers
                         /\ s.last = [user |-> u, reply |-> R_InvalidDate]

\* C12 witness: a session at ask_date that has just rejected a date; today + 10
\* is accepted and stored, today + 11, yesterday and a word are rejected.
C12_Witness ==
    /\ last = [user |-> "u1", reply |-> R_InvalidDate]
    /\ HasSession("u1")
    /\ Stored("u1").step = "ask_date"
    /\ Stored("u1").date = ""
    /\ handlers = <<>>
    /\ LET s == Serve(Cur, "u1", "@+10", DebounceSeconds, AnyAnswer)
       IN  s.obj[s.us["u1"]].date = "@+10" /\ Len(s.hs) = 1
    /\ \A body \in {"@+11", "@-1", "goa"} :
          LET s == Serve(Cur, "u1", body, DebounceSeconds, AnyAnswer)
          IN  s.last.reply = R_InvalidDate /\ s.obj[s.us["u1"]].date = ""

\* the session of handler h is still stored, at ask_date and without offers
KeptAtAskDate(s, h) ==
    /\ s.us[h.user] = h.session
    /\ s.obj[h.session].step = "ask_date"
    /\ s.obj[h.session].flights = <<>>

\* C13 (as stated): for a handler of ask_date waiting for a lookup or for the
\* search, when the lookup finds no code or fails, or the search fails or
\* returns no offer, the session is kept at ask_date without offers and the
\* reply is the invalid-city or the no-flights reply; the step becomes
\* select_flight exactly when the search returns at least one offer.
C13_Original ==
    \A i \in DOMAIN handlers :
        LET h == handlers[i]
        IN  /\ h.pc \in {"iata_origin", "iata_destination"} =>
                 \A result \in {"none", "raised"} :
                    LET s == Resume(Cur, i, result)
                    IN  /\ KeptAtAskDate(s, h)
                        /\ Len(s.hs) < Len(handlers) => s.last.reply = R_InvalidCity
            /\ h.pc = "search_offers" =>
                 \A found \in -1 .. (MaxOffers + 1) :
                    LET s == Collect(AfterSearch(Cur, i, found))
                    IN  IF found >= 1
                        THEN /\ s.us[h.user] = h.session
                             /\ s.obj[h.session].step = "select_flight"
                        ELSE KeptAtAskDate(s, h) /\ s.last.reply = R_NoFlights

Created == [link |-> "created", payments |-> "none"]

\* C14: at confirm_booking, a dispatched "confirm" whose payment link cannot
\* be created (no client, the call raises, the response lacks id or
\* short_url) gets the unavailable or the link-failed reply, writes no booking
\* row and no passenger row, starts no insert, and leaves the session at
\* confirm_booking without a payment reference, unchanged but for
\* last_interaction; a later "confirm" runs the finalizer again: with a client
\* and a well-formed response it creates a link and starts the inserts.
C14_LinkFailureKeepsState ==
    \A u \in MainUsers, d \in Gaps, ans \in Answers :
        LET o == user_sessions[u]
            s == Serve(Cur, u, "CONFIRM", d, ans)
            s2 == Serve(s, u, "CONFIRM", DebounceSeconds, Created)
        IN  (/\ Dispatched(u, "CONFIRM", d)
             /\ Stored(u).step = "confirm_booking"
             /\ razorpay_client = "none" \/ ans.link \in {"raised", "malformed"})
            => /\ s.last = [user |-> u, reply |-> IF razorpay_client = "none"
                                                  THEN R_Unavailable ELSE R_LinkFailed]
               /\ s.fb = flight_bookings /\ s.pr = passenger_rows
               /\ s.hs = handlers
               /\ s.audit = audit
               /\ s.us[u] = o
               /\ s.obj[o] = Refreshed(u, d)
               /\ s.obj[o].step = "confirm_booking"
               /\ s.obj[o].razorpay_order_id = NoOrder
               /\ IF razorpay_client = "none"
                  THEN s2.last.reply = R_Unavailable /\ s2.hs = s.hs
                  ELSE /\ Len(s2.hs) = Len(s.hs) + 1
                       /\ s2.hs[Len(s2.hs)].pc = "insert_booking"
                       /\ s2.audit[o].links = s.audit[o].links + 1

\* C14 witness: a session that has just been told that the payment link could
\* not be created: no row exists, no reference is stored, and the next
\* "confirm" creates the link.
C14_Witness ==
    /\ last = [user |-> "u1", reply |-> R_LinkFailed]
    /\ HasSession("u1")
    /\ Stored("u1").step = "confirm_booking"
    /\ Stored("u1").razorpay_order_id = NoOrder
    /\ flight_bookings = <<>> /\ passenger_rows = <<>> /\ handlers = <<>>
    /\ audit[user_sessions["u1"]].links = 0
    /\ Serve(Cur, "u1", "CONFIRM", DebounceSeconds,
             [link |-> "malformed", payments |-> "none"]).last.reply = R_LinkFailed
    /\ Len(Serve(Cur, "u1", "CONFIRM", DebounceSeconds, Created).hs) = 1

PassengerRowsOf(pid) == {k \in DOMAIN passenger_rows : passenger_rows[k].Pid = pid}

\* a handler is still writing the rows of booking pid
InProgress(pid) == \E i \in DOMAIN handlers : handlers[i].pid = pid

\* a session at awaiting_payment has exactly one booking row, that row holds
\* the session's payment reference, and one passenger row per passenger
\* refers to it
BookedOnce(u) ==
    \E k \in DOMAIN flight_bookings :
        /\ BookingsOf(user_sessions[u]) = {k}
        /\ flight_bookings[k].razorpay_order_id = Stored(u).razorpay_order_id
        /\ Cardinality(PassengerRowsOf(flight_bookings[k].Pid)) = Len(Stored(u).passengers)

\* C15 (as stated): a session that has moved from confirm_booking to
\* awaiting_payment has exactly one booking row, with the payment reference of
\* the session, and as many passenger rows for that booking as it has
\* passengers; and no booking row is left, once its handler is over, with
\* fewer passenger rows than the passenger count it records.
C15_Original ==
    /\ \A u \in Users :
          (HasSession(u) /\ Stored(u).step = "awaiting_payment" /\ handlers = <<>>)
          => BookedOnce(u)
    /\ \A k \in DOMAIN flight_bookings :
          ~InProgress(flight_bookings[k].Pid)
          => Cardinality(PassengerRowsOf(flight_bookings[k].Pid))
                >= flight_bookings[k].total_passengers

\* the states in which a step of the webhook has just raised: a request that
\* ran to its reply and got the generic failure reply, or an await of a
\* suspended handler that raised
JustFailed ==
    {Serve(Cur, u, body, DebounceSeconds, ans) :
        u \in MainUsers, body \in Bodies, ans \in Answers}
    \cup {Resume(Cur, i, "raised") :
            i \in {j \in DOMAIN handlers : handlers[j].pc # "search_offers"}}
    \cup {Collect(AfterSearch(Cur, i, -1)) :
            i \in {j \in DOMAIN handlers : handlers[j].pc = "search_offers"}}

\* s, and the states one return of a handler still suspended in s leads to
ThenReturns(s) ==
    {s} \cup {Resume(s, i, "ok") :
                i \in {j \in DOMAIN s.hs : s.hs[j].pc \in Inserts}}
        \cup {Resume(s, i, "code") :
                i \in {j \in DOMAIN s.hs : s.hs[j].pc \in {"iata_origin", "iata_destination"}}}
        \cup {Collect(AfterSearch(s, i, 1)) :
                i \in {j \in DOMAIN s.hs : s.hs[j].pc = "search_offers"}}

\* C16 (as stated): when a step raises, the reply is the generic failure
\* reply and the user's session is removed from user_sessions; the next
\* message of the user that is no greeting is handled as for a user without
\* session: it starts a session at ask_origin and is not taken as an answer.
C16_Original ==
    \A s1 \in JustFailed :
        (s1.last.reply = R_Error /\ Len(s1.hs) <= Len(handlers))
        => LET u == s1.last.user
           IN  /\ s1.us[u] = NoSession
               /\ \A s2 \in ThenReturns(s1) :
                     LET s3 == Serve(s2, u, "goa", DebounceSeconds, AnyAnswer)
                     IN  /\ s3.last = [user |-> u, reply |-> R_SessionStarted]
                         /\ s3.obj[s3.us[u]] = NewSession

\* the steps that the branches of main.py:300-553 handle
Steps ==
    {"ask_origin", "ask_destination", "ask_date", "select_flight", "ask_name", "ask_age",
     "ask_gender", "ask_seat", "add_another_passenger", "confirm_booking",
     "awaiting_payment", "booking_confirmed"}

\* the state with the step of u's session replaced by a value no branch handles
Corrupted(u) == [Cur EXCEPT !.obj[user_sessions[u]].step = "corrupt"]

\* C17: the step of every stored session is one of the twelve steps; and a
\* dispatched request that finds a session with any other step removes the
\* session from user_sessions and replies that the session was reset.
C17_ClosedSteps ==
    /\ \A u \in Users : HasSession(u) => Stored(u).step \in Steps
    /\ \A u \in MainUsers, d \in Gaps, body \in Bodies :
          Dispatched(u, body, d)
          => LET s == Serve(Corrupted(u), u, body, d, AnyAnswer)
             IN  /\ s.us[u] = NoSession
                 /\ s.last = [user |-> u, reply |-> R_Corrupt]

\* C17 witness: a session that has gone through the dialogue up to
\* awaiting_payment; were its step any other value, the next text would
\* remove it.
C17_Witness ==
    /\ HasSession("u1")
    /\ Stored("u1").step = "awaiting_payment"
    /\ Len(Stored("u1").passengers) = MaxPassengers
    /\ LET s == Serve(Corrupted("u1"), "u1", "later", DebounceSeconds, AnyAnswer)
       IN  s.us["u1"] = NoSession /\ s.last.reply = R_Corrupt

FreeTextSteps == {"ask_origin", "ask_destination", "ask_name", "ask_seat"}

\* C18 (as stated): in ask_origin, ask_destination, ask_name and ask_seat a
\* dispatched message whose trimmed body is empty is rejected: the session
\* stays stored in the same step, and no origin, destination, passenger name
\* or seat is stored from it (nothing but last_interaction changes).
C18_Original ==
    \A u \in MainUsers, d \in Gaps, body \in {b \in Bodies : Strip(b) = ""} :
        LET o == user_sessions[u]
            s == Serve(Cur, u, body, d, AnyAnswer)
        IN  (Dispatched(u, body, d) /\ Stored(u).step \in FreeTextSteps)
            => /\ s.us[u] = o
               /\ s.obj[o].step = Stored(u).step
               /\ s.obj[o] = Refreshed(u, d)

\* the answer in body is one that the step does not accept
NotAccepted(step, body) ==
    LET text == Title(Strip(body))
    IN  CASE step = "ask_age" -> ~(IntOf(text) # NotInt /\ IntOf(text) > 0)
          [] step = "ask_gender" -> Lower(text) \notin {"male", "female", "other"}
          [] step = "add_another_passenger" -> Lower(text) \notin {"yes", "no"}
          [] step = "confirm_booking" -> Lower(text) # "confirm"
          [] OTHER -> FALSE

\* C19 (as stated): in ask_age, ask_gender, add_another_passenger and
\* confirm_booking a dispatched answer that the step does not accept (no
\* positive integer; none of Male, Female, Other; neither yes nor no; not
\* confirm) leaves the session stored with every field but last_interaction
\* unchanged.
C19_Original ==
    \A u \in MainUsers, d \in Gaps, body \in Bodies, ans \in Answers :
        LET o == user_sessions[u]
            s == Serve(Cur, u, body, d, ans)
        IN  (Dispatched(u, body, d) /\ NotAccepted(Stored(u).step, body))
            => /\ s.us[u] = o
               /\ s.obj[o] = Refreshed(u, d)

IsPrefix(a, b) == Len(a) <= Len(b) /\ SubSeq(b, 1, Len(a)) = a

\* a finished passenger: the four keys, a positive age, one of the genders
WellFormed(p) ==
    /\ DOMAIN p = {"name", "age", "gender", "seat"}
    /\ p.age \in Nat \ {0}
    /\ p.gender \in {"Male", "Female", "Other"}
    /\ p.seat = Upper(p.seat)

\* the states an await of a suspended handler leads to, whatever it returns
AfterAnyReturn ==
    {Resume(Cur, i, result) :
        i \in {j \in DOMAIN handlers : handlers[j].pc # "search_offers"},
        result \in {"code", "none", "ok", "raised"}}
    \cup {Collect(AfterSearch(Cur, i, found)) :
            i \in {j \in DOMAIN handlers : handlers[j].pc = "search_offers"},
            found \in -1 .. (MaxOffers + 1)}

\* C20: every entry of passengers of a stored session has the keys name, age,
\* gender and seat, with a positive integer age and a gender among Male,
\* Female and Other; the passenger being filled in ask_age, ask_gender and
\* ask_seat is not one already appended; a request that does not reset the
\* session (dispatched, or debounced) and the return of any await leave the
\* passengers stored before as a prefix of the passengers stored after, so
\* that no appended entry changes or disappears within a session.
C20_PassengersAppendOnly ==
    /\ \A u \in Users :
          HasSession(u) =>
             /\ \A k \in DOMAIN Stored(u).passengers : WellFormed(Stored(u).passengers[k])
             /\ Stored(u).step \in {"ask_age", "ask_gender", "ask_seat"}
                   => "seat" \notin DOMAIN Stored(u).current_passenger
    /\ \A u \in MainUsers, d \in Gaps, body \in Bodies, ans \in Answers :
          LET o == user_sessions[u]
              s == Serve(Cur, u, body, d, ans)
          IN  (HasSession(u) /\ (Dispatched(u, body, d) \/ Debounced(Arrival(d), u))
               /\ s.us[u] = o)
              => /\ IsPrefix(Stored(u).passengers, s.obj[o].passengers)
                 /\ Len(s.obj[o].passengers) <= Len(Stored(u).passengers) + 1
    /\ \A s \in AfterAnyReturn :
          \A o \in DOMAIN s.obj : IsPrefix(objects[o].passengers, s.obj[o].passengers)

\* C20 witness: a session with two passengers stored that is filling the
\* third one; the seat appends it and leaves the first two as they were.
C20_Witness ==
    /\ HasSession("u1")
    /\ Stored("u1").step = "ask_seat"
    /\ Len(Stored("u1").passengers) = 2
    /\ LET s == Serve(Cur, "u1", "goa", DebounceSeconds, AnyAnswer)
           after == s.obj[s.us["u1"]].passengers
       IN  /\ Len(after) = 3
           /\ SubSeq(after, 1, 2) = Stored("u1").passengers
           /\ WellFormed(after[3])

\* the answers that are final in a session dict whose step is before.step
\* are the same in after
WriteOnceKept(before, after) ==
    /\ before.step # "ask_origin" => after.origin = before.origin
    /\ before.step \notin {"ask_origin", "ask_destination"}
          => after.destination = before.destination
    /\ before.step \notin {"ask_origin", "ask_destination", "ask_date", "select_flight"}
          => /\ after.flights = before.flights
             /\ after.selected_flight = before.selected_flight

\* C21 (as stated): flights never holds more than 5 offers; a request that
\* does not reset the session and the return of any await of an earlier
\* request leave origin unchanged once the step is past ask_origin,
\* destination unchanged once it is past ask_destination, and flights and
\* selected_flight unchanged once it is past select_flight.
C21_Original ==
    /\ \A o \in DOMAIN objects : Len(objects[o].flights) <= MaxOffers
    /\ \A u \in MainUsers, d \in Gaps, body \in Bodies, ans \in Answers :
          LET o == user_sessions[u]
              s == Serve(Cur, u, body, d, ans)
          IN  (HasSession(u) /\ (Dispatched(u, body, d) \/ Debounced(Arrival(d), u))
               /\ s.us[u] = o)
              => WriteOnceKept(Stored(u), s.obj[o])
    /\ \A s \in AfterAnyReturn :
          \A o \in DOMAIN s.obj : WriteOnceKept(objects[o], s.obj[o])

\* the step changes of the branches of main.py:300-530
TransitionTable ==
    {<<"ask_origin", "ask_destination">>, <<"ask_destination", "ask_date">>,
     <<"ask_date", "select_flight">>, <<"select_flight", "ask_name">>,
     <<"ask_name", "ask_age">>, <<"ask_age", "ask_gender">>,
     <<"ask_gender", "ask_seat">>, <<"ask_seat", "add_another_passenger">>,
     <<"ask_seat", "confirm_booking">>, <<"add_another_passenger", "ask_name">>,
     <<"add_another_passenger", "confirm_booking">>,
     <<"confirm_booking", "awaiting_payment">>,
     <<"awaiting_payment", "booking_confirmed">>}

\* in state s user u has no session any more, or the step of the session is
\* the step `from` or one the table allows after it
StepFollows(s, u, from) ==
    \/ s.us[u] = NoSession
    \/ s.obj[s.us[u]].step = from
    \/ <<from, s.obj[s.us[u]].step>> \in TransitionTable

\* C22 (as stated): a request of a user with a session that is no greeting
\* and finds the session not expired, and the return of any await of an
\* earlier request, leave the step of the user's session as it was, or
\* delete the session, or change the step along one pair of the transition
\* table; a greeting or an expired session gives step ask_origin.
C22_Original ==
    /\ \A u \in MainUsers, d \in Gaps, body \in Bodies, ans \in Answers :
          LET s == Serve(Cur, u, body, d, ans)
          IN  HasSession(u) =>
                 IF Dispatched(u, body, d) \/ Debounced(Arrival(d), u)
                 THEN StepFollows(s, u, Stored(u).step)
                 ELSE s.obj[s.us[u]].step = "ask_origin"
    /\ \A s \in AfterAnyReturn :
          \A u \in Users : HasSession(u) => StepFollows(s, u, Stored(u).step)

\* C23: a greeting that arrives less than 2 s after the user's last processed
\* request gets the wait notice and leaves the sessions, the session dicts
\* and the debounce timestamps as they were; a greeting that is not debounced
\* is answered with the welcome, makes its arrival the user's debounce
\* timestamp, so that whatever the user sends less than 2 s later gets the
\* wait notice and leaves the fresh session in place.
C23_DebounceBeforeGreeting ==
    \A u \in MainUsers, body \in Greets, d \in Gaps :
        LET s == Serve(Cur, u, body, d, AnyAnswer)
        IN  IF user_last_interaction[u] # NoTime /\ user_last_interaction[u] + d < DebounceSeconds
            THEN /\ s.last = [user |-> u, reply |-> R_Wait]
                 /\ s.us = Arrival(d).us
                 /\ s.obj = Arrival(d).obj
                 /\ s.uli = Arrival(d).uli
            ELSE /\ s.last = [user |-> u, reply |-> R_Welcome]
                 /\ s.uli[u] = 0
                 /\ s.obj[s.us[u]] = NewSession
                 /\ \A next \in Bodies, d2 \in {0, 1} :
                       LET s2 == Serve(s, u, next, d2, AnyAnswer)
                       IN  /\ s2.last = [user |-> u, reply |-> R_Wait]
                           /\ s2.uli[u] = d2
                           /\ s2.obj[s2.us[u]].step = "ask_origin"

\* C23 witness: a session that has collected origin and destination, 1 s
\* after its last processed request; a greeting now gets the wait notice and
\* the session keeps its answers, the same greeting 1 s later resets it.
C23_Witness ==
    /\ HasSession("u1")
    /\ Stored("u1").step = "ask_date"
    /\ Stored("u1").origin = "Goa"
    /\ user_last_interaction["u1"] = 1
    /\ LET s == Serve(Cur, "u1", "hi", 0, AnyAnswer)
       IN  /\ s.last.reply = R_Wait
           /\ s.obj[s.us["u1"]].origin = "Goa"
    /\ Serve(Cur, "u1", "hi", 1, AnyAnswer).last.reply = R_Welcome

\* the states the await of suspended handler i leads to, whatever it returns
ReturnsOf(i) ==
    IF handlers[i].pc = "search_offers"
    THEN {Collect(AfterSearch(Cur, i, found)) : found \in -1 .. (MaxOffers + 1)}
    ELSE {Resume(Cur, i, result) : result \in {"code", "none", "ok", "raised"}}

\* u's stored session is the one a greeting has just created, and handler i
\* of an earlier request of u still holds the session dict of before
ResetMeanwhile(i) ==
    LET u == handlers[i].user
    IN  /\ HasSession(u)
        /\ handlers[i].session # user_sessions[u]
        /\ last = [user |-> u, reply |-> R_Welcome]
        /\ [Stored(u) EXCEPT !.last_interaction = 0] = NewSession

\* C24 (as stated): when a handler of an earlier request of a user is
\* suspended at an await and a greeting of that user has created a fresh
\* session meanwhile, the return of the await, successful or not, leaves the
\* fresh session stored for the user: the same dict, with step ask_origin and
\* all fields empty, neither replaced by the old dict nor deleted.
C24_Original ==
    \A i \in DOMAIN handlers :
        ResetMeanwhile(i)
        => \A s \in ReturnsOf(i) :
              LET u == handlers[i].user
              IN  /\ s.us[u] = user_sessions[u]
                  /\ s.obj[s.us[u]] = Stored(u)

\* C25 (as stated): the bookings that the confirmations of two different
\* users are writing have distinct booking references; and when the booking
\* insert of a user whose session is still the stored one returns, the
\* session stays stored and the booking row is in flight_bookings, whatever
\* other users confirmed in the same clock second.
C25_Original ==
    /\ \A i, j \in DOMAIN handlers :
          (/\ handlers[i].user # handlers[j].user
           /\ handlers[i].pc \in Inserts
           /\ handlers[j].pc \in Inserts)
          => handlers[i].booking_reference # handlers[j].booking_reference
    /\ \A i \in DOMAIN handlers :
          LET h == handlers[i]
              s == Resume(Cur, i, "ok")
          IN  (h.pc = "insert_booking" /\ user_sessions[h.user] = h.session)
              => /\ s.us[h.user] = h.session
                 /\ \E k \in DOMAIN s.fb : s.fb[k].Pid = h.pid

====
